---- MODULE Spec2Model ----
(***************************************************************************)
(* Model of two subsystems of fluvio:                                      *)
(*   - crates/fluvio-sc/src/cli.rs : ScOpt::mode, ScOpt::as_sc_config and  *)
(*     TlsConfig::try_build_tls_acceptor (streaming controller options);   *)
(*   - crates/fluvio-cli/src/lib.rs : find_plugin and                      *)
(*     process_external_subcommand (external plugin dispatch).             *)
(*                                                                         *)
(* Rust's Option<T> is a sequence of length 0 (None) or 1 (Some(v)).       *)
(* Rust's Result<T, E> is a record tagged "Ok" or "Err".                   *)
(***************************************************************************)
EXTENDS Integers, Sequences, FiniteSets, TLC

VARIABLES
    opt,            \* the parsed ScOpt (self of mode / as_sc_config)
    modeOut,        \* Option of the RunMode returned by ScOpt::mode
    cfgOut,         \* Option of the Result returned by ScOpt::as_sc_config
    acceptorOut,    \* Option of the Result of TlsConfig::try_build_tls_acceptor
    providerCalls,  \* calls made on the external TlsAcceptor builder, in order
    platform,       \* "unix" or "windows": decides the cfg(unix) block
    fs,             \* the plugin executables each search stage holds
    external,       \* the token list of RootCmd::External as it was parsed
    args,           \* the Vec<String> of RootCmd::External, as the code mutates it
    pc,             \* position inside process_external_subcommand
    lookups,        \* names handed to find_plugin, in order
    located,        \* Option of the path find_plugin returned
    children,       \* child processes launched, in order: [path, args, status]
    stdout,         \* lines printed by println!
    exited,         \* Option of the code handed to std::process::exit
    returned        \* Option of the Result process_external_subcommand returned

scVars == <<opt, modeOut, cfgOut, acceptorOut, providerCalls>>
cliVars == <<platform, fs, external, args, pc, lookups, located, children, stdout, exited, returned>>
vars == <<opt, modeOut, cfgOut, acceptorOut, providerCalls,
          platform, fs, external, args, pc, lookups, located, children, stdout, exited, returned>>

----------------------------------------------------------------------------
(* Option and Result *)

None == <<>>
Some(v) == <<v>>
IsSome(o) == Len(o) = 1
IsNone(o) == Len(o) = 0
Unwrap(o) == o[1]
OptionOf(S) == {None} \cup {Some(v) : v \in S}

Ok(v) == [tag |-> "Ok", val |-> v]
Err(e) == [tag |-> "Err", err |-> e]
IsOk(r) == r.tag = "Ok"
IsErr(r) == r.tag = "Err"

IoError(kind, msg) == [kind |-> kind, msg |-> msg]

----------------------------------------------------------------------------
(* Streaming controller options: crates/fluvio-sc/src/cli.rs *)

MetadataPaths == {"/meta/a", "/meta/b"}
PublicAddrs == {"0.0.0.0:9003", "0.0.0.0:9004"}
PrivateAddrs == {"0.0.0.0:9005"}
PolicyFiles == {"policy.valid.json", "policy.invalid.json"}
ValidPolicyFiles == {"policy.valid.json"}
ScopeFiles == {"scopes.json"}
PemPaths == {"/tls/one.pem", "/tls/two.pem"}
SecretNames == {"my-secret"}
WhiteLists == {<<>>, <<"spu">>}

\* fluvio_types::defaults::TLS_SERVER_SECRET_NAME
TLS_SERVER_SECRET_NAME == "TLS_SERVER_SECRET_NAME"

\* ScConfig::default(): the fields as_sc_config reads or writes
ScConfigDefault ==
    [public_endpoint |-> "DEFAULT_PUBLIC_ENDPOINT",
     private_endpoint |-> "DEFAULT_PRIVATE_ENDPOINT",
     x509_auth_scopes |-> None,
     white_list |-> {},
     read_only_metadata |-> FALSE]

\* struct TlsConfig, #[derive(Default)]
TlsConfigDefault ==
    [tls |-> FALSE,
     server_cert |-> None,
     server_key |-> None,
     enable_client_cert |-> FALSE,
     ca_cert |-> None,
     bind_non_tls_public |-> None,
     secret_name |-> None]

\* struct ScOpt, #[derive(Default)]
ScOptDefault ==
    [local |-> None,
     k8 |-> FALSE,
     bind_public |-> None,
     bind_private |-> None,
     namespace |-> None,
     tls |-> TlsConfigDefault,
     x509_auth_scopes |-> None,
     auth_policy |-> None,
     white_list |-> <<>>,
     read_only |-> None]

\* every TlsConfig the option parser can produce over the sample values
TlsConfigs ==
    [tls : BOOLEAN,
     server_cert : OptionOf(PemPaths),
     server_key : OptionOf(PemPaths),
     enable_client_cert : BOOLEAN,
     ca_cert : OptionOf(PemPaths),
     bind_non_tls_public : OptionOf(PublicAddrs),
     secret_name : OptionOf(SecretNames)]

\* the certificate material is not read by mode / as_sc_config: four
\* representative fillings are enough to show it is passed through untouched
TlsMaterials ==
    {<<None, None, FALSE, None>>,
     <<Some("/tls/one.pem"), Some("/tls/two.pem"), FALSE, None>>,
     <<Some("/tls/one.pem"), Some("/tls/two.pem"), TRUE, Some("/tls/one.pem")>>,
     <<None, None, TRUE, Some("/tls/two.pem")>>}

ScTlsConfigs ==
    {[tls |-> t,
      server_cert |-> m[1],
      server_key |-> m[2],
      enable_client_cert |-> m[3],
      ca_cert |-> m[4],
      bind_non_tls_public |-> b,
      secret_name |-> s] :
        t \in BOOLEAN, m \in TlsMaterials,
        b \in OptionOf(PublicAddrs), s \in OptionOf(SecretNames)}

ScOpts ==
    [local : OptionOf(MetadataPaths),
     k8 : BOOLEAN,
     bind_public : OptionOf(PublicAddrs),
     bind_private : OptionOf(PrivateAddrs),
     namespace : {None},
     tls : ScTlsConfigs,
     x509_auth_scopes : OptionOf(ScopeFiles),
     auth_policy : OptionOf(PolicyFiles),
     white_list : WhiteLists,
     read_only : OptionOf(MetadataPaths)]

RunModeLocal(p) == <<"Local", p>>
RunModeReadOnly(p) == <<"ReadOnly", p>>
RunModeK8s == <<"K8s">>

\* a slip in the match arms: the read-only arm tried first
mode_ReadOnlyFirst(self) ==
    IF IsSome(self.read_only) THEN RunModeReadOnly(Unwrap(self.read_only))
    ELSE IF IsSome(self.local) THEN RunModeLocal(Unwrap(self.local))
    ELSE RunModeK8s

\* ScOpt::mode: match (&self.local, &self.read_only, self.k8)
mode(self) ==
    IF IsSome(self.local) THEN RunModeLocal(Unwrap(self.local))
    ELSE IF IsSome(self.read_only) THEN RunModeReadOnly(Unwrap(self.read_only))
    ELSE RunModeK8s

\* BasicRbacPolicy::try_from(path): the policy file loads or it does not
BasicRbacPolicyTryFrom(p) ==
    IF p \in ValidPolicyFiles
    THEN Ok([policy_file |-> p])
    ELSE Err(IoError("InvalidData", "policy"))

Range(s) == {s[i] : i \in 1..Len(s)}

\* as_sc_config, first part: defaults overwritten by the supplied options
apply_options(self) ==
    LET c0 == ScConfigDefault
        c1 == IF IsSome(self.bind_public)
              THEN [c0 EXCEPT !.public_endpoint = Unwrap(self.bind_public)]
              ELSE c0
        c2 == IF IsSome(self.bind_private)
              THEN [c1 EXCEPT !.private_endpoint = Unwrap(self.bind_private)]
              ELSE c1
    IN  [c2 EXCEPT !.x509_auth_scopes = self.x509_auth_scopes,
                   !.white_list = Range(self.white_list),
                   !.read_only_metadata = IsSome(self.read_only)]

\* as_sc_config, second part: Result of the optional policy
load_policy(auth_policy) ==
    IF IsSome(auth_policy)
    THEN LET r == BasicRbacPolicyTryFrom(Unwrap(auth_policy))
         IN  IF IsOk(r) THEN Ok(Some(r.val)) ELSE r
    ELSE Ok(None)

\* a slip: the default secret name never filled in
secret_get_or_insert_Skip(tls) == tls

\* tls.secret_name.get_or_insert(TLS_SERVER_SECRET_NAME.to_string())
secret_get_or_insert(tls) ==
    IF IsNone(tls.secret_name)
    THEN [tls EXCEPT !.secret_name = Some(TLS_SERVER_SECRET_NAME)]
    ELSE tls

\* a slip: the proxy address read after public_endpoint was overwritten
tls_split_ProxyAfterOverwrite(config, policy, tls) ==
    IF tls.tls
    THEN IF IsNone(tls.bind_non_tls_public)
         THEN Err(IoError("NotFound", "non tls addr for public must be specified"))
         ELSE LET split == [config EXCEPT !.public_endpoint = Unwrap(tls.bind_non_tls_public)]
              IN  Ok(<<<<split, policy>>, Some(<<split.public_endpoint, secret_get_or_insert(tls)>>)>>)
    ELSE Ok(<<<<config, policy>>, None>>)

\* a slip: the internal bind address applied whenever it is supplied
tls_split_IgnoreTlsFlag(config, policy, tls) ==
    IF tls.tls
    THEN IF IsNone(tls.bind_non_tls_public)
         THEN Err(IoError("NotFound", "non tls addr for public must be specified"))
         ELSE Ok(<<<<[config EXCEPT !.public_endpoint = Unwrap(tls.bind_non_tls_public)], policy>>,
                   Some(<<config.public_endpoint, secret_get_or_insert(tls)>>)>>)
    ELSE IF IsSome(tls.bind_non_tls_public)
         THEN Ok(<<<<[config EXCEPT !.public_endpoint = Unwrap(tls.bind_non_tls_public)], policy>>, None>>)
         ELSE Ok(<<<<config, policy>>, None>>)

\* as_sc_config, third part: if tls is on, the public service moves to the
\* non-tls address and the former public endpoint becomes the proxy address
tls_split(config, policy, tls) ==
    IF tls.tls
    THEN LET proxy_addr == config.public_endpoint
         IN  IF IsNone(tls.bind_non_tls_public)
             THEN Err(IoError("NotFound", "non tls addr for public must be specified"))
             ELSE Ok(<<<<[config EXCEPT !.public_endpoint = Unwrap(tls.bind_non_tls_public)], policy>>,
                       Some(<<proxy_addr, secret_get_or_insert(tls)>>)>>)
    ELSE Ok(<<<<config, policy>>, None>>)

\* ScOpt::as_sc_config
as_sc_config(self) ==
    LET config == apply_options(self)
        policy == load_policy(self.auth_policy)
    IN  IF IsErr(policy) THEN policy
        ELSE tls_split(config, policy.val, self.tls)

----------------------------------------------------------------------------
(* TlsConfig::try_build_tls_acceptor.  The TlsAcceptor builder is an       *)
(* external provider: provider.builder, provider.ca and provider.certkey   *)
(* say whether TlsAcceptor::builder(), with_ca_from_pem_file and           *)
(* with_certifiate_and_key_from_pem_files succeed.  The result is          *)
(* [out, calls]: the Result and the provider calls made.                   *)

Providers == [builder : BOOLEAN, ca : BOOLEAN, certkey : BOOLEAN]

ProviderError(what) == IoError("Other", what)

\* the tail shared by both branches: certificate and key, then build()
with_certificate_and_key(provider, calls, verify, ca, crt, key) ==
    LET calls2 == Append(calls, <<"with_certifiate_and_key_from_pem_files", crt, key>>)
    IN  IF ~provider.certkey
        THEN [out |-> Err(ProviderError("certificate")), calls |-> calls2]
        ELSE [out |-> Ok([verify_mode |-> verify, ca |-> ca, cert |-> crt, key |-> key]),
              calls |-> Append(calls2, <<"build">>)]

\* a slip: client-certificate verification configured whenever a CA is given
builder_branch_CaDecides(self, provider, crt, key) ==
    IF IsSome(self.ca_cert)
    THEN IF ~provider.builder
         THEN [out |-> Err(ProviderError("builder")), calls |-> <<<<"builder">>>>]
         ELSE LET calls1 == <<<<"builder">>, <<"with_ssl_verify_mode", "PEER">>,
                              <<"with_ca_from_pem_file", Unwrap(self.ca_cert)>>>>
              IN  IF ~provider.ca
                  THEN [out |-> Err(ProviderError("ca")), calls |-> calls1]
                  ELSE with_certificate_and_key(provider, calls1, "PEER", self.ca_cert, crt, key)
    ELSE IF ~provider.builder
         THEN [out |-> Err(ProviderError("builder")), calls |-> <<<<"builder">>>>]
         ELSE with_certificate_and_key(provider, <<<<"builder">>>>, "NONE", None, crt, key)

\* the if self.enable_client_cert { .. } else { .. } expression and what follows
builder_branch(self, provider, crt, key) ==
    IF self.enable_client_cert
    THEN IF IsNone(self.ca_cert)
         THEN [out |-> Err(IoError("NotFound", "missing ca cert")), calls |-> <<>>]
         ELSE IF ~provider.builder
              THEN [out |-> Err(ProviderError("builder")), calls |-> <<<<"builder">>>>]
              ELSE LET calls1 == <<<<"builder">>, <<"with_ssl_verify_mode", "PEER">>,
                                   <<"with_ca_from_pem_file", Unwrap(self.ca_cert)>>>>
                   IN  IF ~provider.ca
                       THEN [out |-> Err(ProviderError("ca")), calls |-> calls1]
                       ELSE with_certificate_and_key(provider, calls1, "PEER", self.ca_cert, crt, key)
    ELSE IF ~provider.builder
         THEN [out |-> Err(ProviderError("builder")), calls |-> <<<<"builder">>>>]
         ELSE with_certificate_and_key(provider, <<<<"builder">>>>, "NONE", None, crt, key)

\* TlsConfig::try_build_tls_acceptor
try_build_tls_acceptor(self, provider) ==
    IF IsNone(self.server_cert)
    THEN [out |-> Err(IoError("NotFound", "missing server cert")), calls |-> <<>>]
    ELSE IF IsNone(self.server_key)
    THEN [out |-> Err(IoError("NotFound", "missing server key")), calls |-> <<>>]
    ELSE builder_branch(self, provider, Unwrap(self.server_cert), Unwrap(self.server_key))

----------------------------------------------------------------------------
(* The streaming controller as a state machine: the options are parsed     *)
(* once, then mode(), as_sc_config() and try_build_tls_acceptor() are      *)
(* applied to them.                                                        *)

\* the plugin dispatcher's state while only the controller is looked at
CliIdle ==
    /\ platform = "unix"
    /\ fs = [path |-> {}, self_dir |-> None, ext_dir |-> None]
    /\ external = <<>>
    /\ args = <<>>
    /\ pc = "idle"
    /\ lookups = <<>>
    /\ located = None
    /\ children = <<>>
    /\ stdout = <<>>
    /\ exited = None
    /\ returned = None

ScNoResult ==
    /\ modeOut = None
    /\ cfgOut = None
    /\ acceptorOut = None
    /\ providerCalls = <<>>

ScInit ==
    /\ opt \in ScOpts
    /\ ScNoResult
    /\ CliIdle

Mode ==
    /\ IsNone(modeOut)
    /\ modeOut' = Some(mode(opt))
    /\ UNCHANGED <<opt, cfgOut, acceptorOut, providerCalls>>
    /\ UNCHANGED cliVars

AsScConfig ==
    /\ IsNone(cfgOut)
    /\ cfgOut' = Some(as_sc_config(opt))
    /\ UNCHANGED <<opt, modeOut, acceptorOut, providerCalls>>
    /\ UNCHANGED cliVars

ScNext == Mode \/ AsScConfig

ScSpec == ScInit /\ [][ScNext]_vars

TlsInit ==
    /\ opt \in {[ScOptDefault EXCEPT !.tls = t] : t \in TlsConfigs}
    /\ ScNoResult
    /\ CliIdle

TryBuildTlsAcceptor ==
    /\ IsNone(acceptorOut)
    /\ \E provider \in Providers :
          LET r == try_build_tls_acceptor(opt.tls, provider)
          IN  /\ acceptorOut' = Some(r.out)
              /\ providerCalls' = r.calls
    /\ UNCHANGED <<opt, modeOut, cfgOut>>
    /\ UNCHANGED cliVars

TlsNext == TryBuildTlsAcceptor

TlsSpec == TlsInit /\ [][TlsNext]_vars

----------------------------------------------------------------------------
(* External plugin dispatch: crates/fluvio-cli/src/lib.rs                  *)

\* longest External(args) token list explored
MaxArgs == 2
\* child exit codes explored: 0..MaxExitCode and 255
MaxExitCode == 2

Tokens == {"foo", "bar", "--bar"}
\* executables that may be installed in a search stage
Executables == {"fluvio-foo", "foo"}
ExitCodes == 0..MaxExitCode \cup {255}
Signals == {2, 9, 15}
Platforms == {"unix", "windows"}

\* what fluvio_extensions_dir() returns when it resolves
ExtensionsDir == "/home/user/.fluvio/extensions"
\* parent of std::env::current_exe() when it resolves
SelfDir == "/opt/fluvio/bin"

SeqsUpTo(S, n) == UNION {[1..k -> S] : k \in 0..n}

\* fs.path: executables found on the system PATH; fs.self_dir / fs.ext_dir:
\* None when the directory cannot be resolved, else the executables in it
FileSystems ==
    [path : SUBSET Executables,
     self_dir : OptionOf(SUBSET Executables),
     ext_dir : OptionOf(SUBSET Executables)]

\* fluvio_extensions_dir()
fluvio_extensions_dir(env) ==
    IF IsSome(env.ext_dir) THEN Ok(ExtensionsDir) ELSE Err("extensions dir")

\* which::which(name): search of the system PATH
which(name, env) ==
    IF name \in env.path THEN Ok([dir |-> "PATH", file |-> name])
    ELSE Err("CannotFindBinaryPath")

\* which::which_in(name, paths, "."): search of one optional directory
which_in(name, dir, paths) ==
    IF IsSome(paths) /\ name \in Unwrap(paths) THEN Ok([dir |-> dir, file |-> name])
    ELSE Err("CannotFindBinaryPath")

\* Result::or_else
or_else(r, alt) == IF IsOk(r) THEN r ELSE alt

\* Result::ok
ok(r) == IF IsOk(r) THEN Some(r.val) ELSE None

\* a slip: the extensions directory searched before the PATH
find_plugin_ExtFirst(name, env) ==
    ok(or_else(or_else(which_in(name, ExtensionsDir, env.ext_dir),
                       which_in(name, SelfDir, env.self_dir)),
               which(name, env)))

\* a slip: the extensions directory path joined with the name, unchecked
find_plugin_AssumeInstalled(name, env) ==
    LET r == or_else(which(name, env), which_in(name, SelfDir, env.self_dir))
    IN  IF IsOk(r) THEN Some(r.val)
        ELSE IF IsSome(env.ext_dir) THEN Some([dir |-> ExtensionsDir, file |-> name])
        ELSE None

\* find_plugin
find_plugin(name, env) ==
    LET ext_dir == env.ext_dir
        self_dir == env.self_dir
    IN  ok(or_else(or_else(which(name, env),
                           which_in(name, SelfDir, self_dir)),
                   which_in(name, ExtensionsDir, ext_dir)))

\* a slip: the bare command name looked up
subcommand_Bare(cmd) == cmd

\* format!("fluvio-{cmd}")
subcommand(cmd) == "fluvio-" \o cmd

\* what args.remove(0) leaves in args
remove_first(a) == Tail(a)

\* a slip: the PATH hint printed whether or not the directory resolves
not_found_message_PathOnly(name, env) ==
    "Unable to find plugin '" \o name \o "'. Make sure it is in your PATH."

\* the two println! of the plugin-not-found arm
not_found_message(name, env) ==
    LET dir == fluvio_extensions_dir(env)
    IN  IF IsOk(dir)
        THEN "Unable to find plugin '" \o name \o "'. Make sure it is installed in \""
                \o dir.val \o "\"."
        ELSE "Unable to find plugin '" \o name \o "'. Make sure it is in your PATH."

\* ExitStatus of a child reaped by Command::status(): it exited with a code,
\* or (unix) it was killed by a signal
Exited(c) == [code |-> Some(c), signal |-> None]
Signaled(s) == [code |-> None, signal |-> Some(s)]

\* a slip: every child termination reported as success
after_status_AlwaysZero(status, os) ==
    [exit |-> Some(0), print |-> <<>>]

\* a slip: a signalled child falls through to Ok(())
after_status_NoSignal(status, os) ==
    IF IsSome(status.code)
    THEN [exit |-> Some(Unwrap(status.code)), print |-> <<>>]
    ELSE [exit |-> None, print |-> <<>>]

\* what follows let status = ..status()?: the exit the parent takes (exit is
\* None when control reaches the final Ok(())) and what it prints before
after_status(status, os) ==
    IF IsSome(status.code)
    THEN [exit |-> Some(Unwrap(status.code)), print |-> <<>>]
    ELSE IF os = "unix" /\ IsSome(status.signal)
    THEN [exit |-> Some(Unwrap(status.signal)),
          print |-> <<"Extension killed via " \o ToString(Unwrap(status.signal)) \o " signal">>]
    ELSE [exit |-> None, print |-> <<>>]

----------------------------------------------------------------------------
(* process_external_subcommand as a state machine.  The function blocks in *)
(* Command::status() while the child runs, so it is cut there: the part up *)
(* to the launch, the child's termination, and the part after the wait.    *)

CliInit ==
    /\ opt = ScOptDefault
    /\ ScNoResult
    /\ platform \in Platforms
    /\ fs \in FileSystems
    /\ external \in {a \in SeqsUpTo(Tokens, MaxArgs) : Len(a) >= 1}
    /\ args = external
    /\ pc = "start"
    /\ lookups = <<>>
    /\ located = None
    /\ children = <<>>
    /\ stdout = <<>>
    /\ exited = None
    /\ returned = None

\* find_plugin returned None: diagnostic, then std::process::exit(1)
PluginNotFound ==
    /\ pc = "start"
    /\ LET name == subcommand(Head(args))
           found == find_plugin(name, fs)
       IN  /\ IsNone(found)
           /\ args' = remove_first(args)
           /\ lookups' = Append(lookups, name)
           /\ located' = found
           /\ stdout' = Append(stdout, not_found_message(name, fs))
           /\ exited' = Some(1)
           /\ pc' = "exited"
    /\ UNCHANGED <<platform, fs, external, children, returned>>
    /\ UNCHANGED scVars

\* the plugin was located but Command::status() failed to launch it: the ?
\* returns the error to the caller
PluginLaunchFails ==
    /\ pc = "start"
    /\ LET name == subcommand(Head(args))
           found == find_plugin(name, fs)
       IN  /\ IsSome(found)
           /\ args' = remove_first(args)
           /\ lookups' = Append(lookups, name)
           /\ located' = found
           /\ returned' = Some(Err("launch"))
           /\ pc' = "returned"
    /\ UNCHANGED <<platform, fs, external, children, stdout, exited>>
    /\ UNCHANGED scVars

\* the plugin was located and launched with the remaining arguments; the
\* parent now blocks until it terminates
PluginLaunch ==
    /\ pc = "start"
    /\ LET name == subcommand(Head(args))
           found == find_plugin(name, fs)
       IN  /\ IsSome(found)
           /\ args' = remove_first(args)
           /\ lookups' = Append(lookups, name)
           /\ located' = found
           /\ children' = Append(children,
                  [path |-> Unwrap(found), args |-> remove_first(args), status |-> None])
           /\ pc' = "waiting"
    /\ UNCHANGED <<platform, fs, external, stdout, exited, returned>>
    /\ UNCHANGED scVars

Running(i) == i \in 1..Len(children) /\ IsNone(children[i].status)

\* the child exits with a code
ChildExits ==
    /\ pc = "waiting"
    /\ \E i \in 1..Len(children), c \in ExitCodes :
          /\ Running(i)
          /\ children' = [children EXCEPT ![i].status = Some(Exited(c))]
    /\ UNCHANGED <<platform, fs, external, args, pc, lookups, located, stdout, exited, returned>>
    /\ UNCHANGED scVars

\* the child is killed by a signal (unix)
ChildKilled ==
    /\ pc = "waiting"
    /\ platform = "unix"
    /\ \E i \in 1..Len(children), s \in Signals :
          /\ Running(i)
          /\ children' = [children EXCEPT ![i].status = Some(Signaled(s))]
    /\ UNCHANGED <<platform, fs, external, args, pc, lookups, located, stdout, exited, returned>>
    /\ UNCHANGED scVars

\* Command::status() returns the terminated child's status and the parent
\* mirrors it
WaitReturns ==
    /\ pc = "waiting"
    /\ IsSome(children[Len(children)].status)
    /\ LET r == after_status(Unwrap(children[Len(children)].status), platform)
       IN  /\ stdout' = stdout \o r.print
           /\ IF IsSome(r.exit)
              THEN /\ exited' = r.exit
                   /\ pc' = "exited"
                   /\ UNCHANGED returned
              ELSE /\ returned' = Some(Ok("unit"))
                   /\ pc' = "returned"
                   /\ UNCHANGED exited
    /\ UNCHANGED <<platform, fs, external, args, lookups, located, children>>
    /\ UNCHANGED scVars

CliNext ==
    \/ PluginNotFound
    \/ PluginLaunchFails
    \/ PluginLaunch
    \/ ChildExits
    \/ ChildKilled
    \/ WaitReturns

CliSpec == CliInit /\ [][CliNext]_vars

----------------------------------------------------------------------------
(* Properties of the streaming controller options (ScSpec, TlsSpec)        *)

RunModes ==
    {RunModeLocal(q) : q \in MetadataPaths}
        \cup {RunModeReadOnly(q) : q \in MetadataPaths} \cup {RunModeK8s}

\* C1: ScOpt::mode returns exactly one mode by fixed precedence: local path
\* present -> Local with that path whatever read_only and k8 are; else
\* read-only path present -> ReadOnly with that path whatever k8 is; else K8s.
C1_ModePrecedence ==
    IsSome(modeOut) =>
        /\ Unwrap(modeOut) \in RunModes
        /\ IsSome(opt.local) => Unwrap(modeOut) = <<"Local", Unwrap(opt.local)>>
        /\ (IsNone(opt.local) /\ IsSome(opt.read_only)) =>
               Unwrap(modeOut) = <<"ReadOnly", Unwrap(opt.read_only)>>
        /\ (IsNone(opt.local) /\ IsNone(opt.read_only)) => Unwrap(modeOut) = <<"K8s">>

\* mode() was applied to options with a local path, a different read-only
\* path and the k8 flag all set
C1_Witness ==
    /\ IsSome(modeOut)
    /\ IsSome(opt.local)
    /\ IsSome(opt.read_only)
    /\ opt.local # opt.read_only
    /\ opt.k8

\* the policy file is absent or loads
PolicyLoads == IsNone(opt.auth_policy) \/ Unwrap(opt.auth_policy) \in ValidPolicyFiles

\* the public endpoint as it is before the tls split
PublicBeforeSplit ==
    IF IsSome(opt.bind_public) THEN Unwrap(opt.bind_public)
    ELSE ScConfigDefault.public_endpoint

\* C2: with tls enabled and the policy absent or valid, as_sc_config fails
\* with a configuration error when bind_non_tls_public is absent; otherwise it
\* succeeds, the proxy address of the side-output is the public endpoint as it
\* was before the split (bind_public or the default) and the returned
\* config's public_endpoint is bind_non_tls_public.
C2_TlsSplit ==
    (IsSome(cfgOut) /\ opt.tls.tls /\ PolicyLoads) =>
        LET r == Unwrap(cfgOut)
        IN  IF IsNone(opt.tls.bind_non_tls_public)
            THEN /\ IsErr(r)
                 /\ r.err = IoError("NotFound", "non tls addr for public must be specified")
            ELSE /\ IsOk(r)
                 /\ IsSome(r.val[2])
                 /\ Unwrap(r.val[2])[1] = PublicBeforeSplit
                 /\ r.val[1][1].public_endpoint = Unwrap(opt.tls.bind_non_tls_public)

\* a tls build succeeded with bind_public and a different internal address
C2_Witness ==
    /\ IsSome(cfgOut)
    /\ opt.tls.tls
    /\ PolicyLoads
    /\ IsSome(opt.bind_public)
    /\ IsSome(opt.tls.bind_non_tls_public)
    /\ opt.bind_public # opt.tls.bind_non_tls_public
    /\ IsOk(Unwrap(cfgOut))

\* C3: with tls disabled and the policy absent or valid, as_sc_config
\* succeeds with no side-output; public and private endpoints are the
\* supplied bind_public and bind_private (the default when not supplied), and
\* the whole result is fixed by the non-tls options alone, so
\* bind_non_tls_public, secret_name and the certificate paths have no effect.
C3_NoTlsFrame ==
    (IsSome(cfgOut) /\ ~opt.tls.tls /\ PolicyLoads) =>
        LET r == Unwrap(cfgOut)
            expected ==
                [public_endpoint |-> PublicBeforeSplit,
                 private_endpoint |->
                     IF IsSome(opt.bind_private) THEN Unwrap(opt.bind_private)
                     ELSE ScConfigDefault.private_endpoint,
                 x509_auth_scopes |-> opt.x509_auth_scopes,
                 white_list |-> {opt.white_list[i] : i \in 1..Len(opt.white_list)},
                 read_only_metadata |-> IsSome(opt.read_only)]
            policy ==
                IF IsSome(opt.auth_policy)
                THEN Some([policy_file |-> Unwrap(opt.auth_policy)])
                ELSE None
        IN  /\ IsOk(r)
            /\ r.val[2] = None
            /\ r.val[1] = <<expected, policy>>

\* a build without tls succeeded although an internal address, a secret name
\* and certificate paths were supplied
C3_Witness ==
    /\ IsSome(cfgOut)
    /\ ~opt.tls.tls
    /\ PolicyLoads
    /\ IsOk(Unwrap(cfgOut))
    /\ IsSome(opt.bind_public)
    /\ IsSome(opt.tls.bind_non_tls_public)
    /\ opt.bind_public # opt.tls.bind_non_tls_public
    /\ IsSome(opt.tls.secret_name)
    /\ IsSome(opt.tls.server_cert)
    /\ IsSome(opt.tls.ca_cert)

\* C11: in every successful tls build the TlsConfig of the side-output
\* carries a secret name: TLS_SERVER_SECRET_NAME when none was supplied, the
\* supplied one unchanged otherwise; every other field of the TlsConfig is
\* passed through unchanged.  For tls with bind_public "0.0.0.0:9003" and
\* bind_non_tls_public "0.0.0.0:9004" the public endpoint is "0.0.0.0:9004",
\* the proxy address "0.0.0.0:9003" and, no secret name supplied, the secret
\* name the default.
C11_SecretNameDefaulted ==
    (IsSome(cfgOut) /\ opt.tls.tls /\ IsOk(Unwrap(cfgOut))) =>
        LET r == Unwrap(cfgOut)
            side == r.val[2]
        IN  /\ IsSome(side)
            /\ LET out == Unwrap(side)[2]
               IN  /\ IsSome(out.secret_name)
                   /\ IsNone(opt.tls.secret_name) =>
                          out.secret_name = Some(TLS_SERVER_SECRET_NAME)
                   /\ IsSome(opt.tls.secret_name) =>
                          out.secret_name = opt.tls.secret_name
                   /\ out.tls = opt.tls.tls
                   /\ out.server_cert = opt.tls.server_cert
                   /\ out.server_key = opt.tls.server_key
                   /\ out.enable_client_cert = opt.tls.enable_client_cert
                   /\ out.ca_cert = opt.tls.ca_cert
                   /\ out.bind_non_tls_public = opt.tls.bind_non_tls_public
            /\ (/\ opt.bind_public = Some("0.0.0.0:9003")
                /\ opt.tls.bind_non_tls_public = Some("0.0.0.0:9004")
                /\ IsNone(opt.tls.secret_name)) =>
                   /\ r.val[1][1].public_endpoint = "0.0.0.0:9004"
                   /\ Unwrap(side)[1] = "0.0.0.0:9003"
                   /\ Unwrap(side)[2].secret_name = Some(TLS_SERVER_SECRET_NAME)

\* the scenario was built: tls, bind_public "0.0.0.0:9003", internal address
\* "0.0.0.0:9004", certificate paths supplied and no secret name
C11_Witness ==
    /\ IsSome(cfgOut)
    /\ IsOk(Unwrap(cfgOut))
    /\ opt.tls.tls
    /\ opt.bind_public = Some("0.0.0.0:9003")
    /\ opt.tls.bind_non_tls_public = Some("0.0.0.0:9004")
    /\ IsNone(opt.tls.secret_name)
    /\ IsSome(opt.tls.server_cert)
    /\ opt.tls.enable_client_cert

----------------------------------------------------------------------------
(* Properties of the plugin dispatch (CliSpec)                             *)

\* the name has an executable on the system PATH / in the directory of the
\* running executable / in the extensions directory
OnPath(name) == name \in fs.path
InSelfDir(name) == IsSome(fs.self_dir) /\ name \in Unwrap(fs.self_dir)
InExtDir(name) == IsSome(fs.ext_dir) /\ name \in Unwrap(fs.ext_dir)

\* find_plugin has been called
LookedUp == Len(lookups) >= 1

\* C4: find_plugin returns the match of the lowest-numbered stage that has
\* one, in the order PATH, directory of the running executable, extensions
\* directory; a stage whose directory is unresolved is skipped and the later
\* stages are still searched.
C4_FirstMatchInStageOrder ==
    LookedUp =>
        LET name == lookups[1]
        IN  /\ OnPath(name) => located = Some([dir |-> "PATH", file |-> name])
            /\ (~OnPath(name) /\ InSelfDir(name)) =>
                   located = Some([dir |-> SelfDir, file |-> name])
            /\ (~OnPath(name) /\ ~InSelfDir(name) /\ InExtDir(name)) =>
                   located = Some([dir |-> ExtensionsDir, file |-> name])

\* all three stages hold the plugin and the PATH match was returned
C4_Witness ==
    /\ LookedUp
    /\ OnPath(lookups[1])
    /\ InSelfDir(lookups[1])
    /\ InExtDir(lookups[1])
    /\ located = Some([dir |-> "PATH", file |-> lookups[1]])

\* C5: when no stage yields a match, also when the executable directory or
\* the extensions directory is unresolved, find_plugin returns None (a value,
\* not an error) and no process has been launched.
C5_NoMatchIsNone ==
    (LookedUp /\ ~OnPath(lookups[1]) /\ ~InSelfDir(lookups[1]) /\ ~InExtDir(lookups[1])) =>
        /\ located = None
        /\ children = <<>>

\* a lookup found nothing while the extensions directory resolved and the
\* executable directory did not
C5_Witness ==
    /\ LookedUp
    /\ located = None
    /\ IsNone(fs.self_dir)
    /\ IsSome(fs.ext_dir)
    /\ ~OnPath(lookups[1])

StartsWith(str, prefix) ==
    /\ Len(str) >= Len(prefix)
    /\ SubSeq(str, 1, Len(prefix)) = prefix

\* C7: when the plugin is located on no stage, one diagnostic is printed,
\* beginning "Unable to find plugin 'fluvio-<name>'" and naming the
\* extensions directory when it resolves and the PATH otherwise; the process
\* then exits with status 1, launches no child and never returns.
C7_NotFoundExitsOne ==
    (pc # "start" /\ IsNone(located)) =>
        /\ pc = "exited"
        /\ exited = Some(1)
        /\ returned = None
        /\ children = <<>>
        /\ Len(stdout) = 1
        /\ StartsWith(stdout[1], "Unable to find plugin 'fluvio-" \o external[1] \o "'")
        /\ IF IsSome(fs.ext_dir)
           THEN stdout[1] = "Unable to find plugin 'fluvio-" \o external[1]
                    \o "'. Make sure it is installed in \"" \o ExtensionsDir \o "\"."
           ELSE stdout[1] = "Unable to find plugin 'fluvio-" \o external[1]
                    \o "'. Make sure it is in your PATH."

\* the plugin was not found while the extensions directory resolved
C7_Witness ==
    /\ pc = "exited"
    /\ IsNone(located)
    /\ IsSome(fs.ext_dir)
    /\ exited = Some(1)

\* C8: once a launched plugin has terminated and the parent has moved on, a
\* child that exited with code c made the parent exit with c and print
\* nothing; a child killed by signal s (unix) made the parent print a message
\* naming s and exit with s.  The parent never exits while its child runs and
\* at most one child is launched.
C8_MirrorsTermination ==
    /\ Len(children) <= 1
    /\ (children # <<>> /\ pc # "waiting") =>
           /\ IsSome(children[1].status)
           /\ LET st == Unwrap(children[1].status)
              IN  /\ IsSome(st.code) =>
                         /\ exited = st.code
                         /\ stdout = <<>>
                  /\ (IsSome(st.signal) /\ platform = "unix") =>
                         /\ exited = st.signal
                         /\ stdout = <<"Extension killed via "
                                          \o ToString(Unwrap(st.signal)) \o " signal">>
    /\ (children # <<>> /\ IsNone(children[1].status)) =>
           (exited = None /\ returned = None)

\* the child exited with a non-zero code and the parent exited with it
C8_Witness ==
    /\ children # <<>>
    /\ pc = "exited"
    /\ children[1].status = Some(Exited(255))
    /\ exited = Some(255)

\* C9: after a successful launch the dispatcher never returns to its caller:
\* whatever the child's termination status, once the wait is over the process
\* has exited.  A launch failure returns an error and does not exit.
C9_DispatchDiverges ==
    /\ children # <<>> =>
           /\ returned = None
           /\ pc \in {"waiting", "exited"}
           /\ pc = "exited" <=> IsSome(exited)
    /\ (LookedUp /\ IsSome(located) /\ children = <<>>) =>
           /\ pc = "returned"
           /\ IsSome(returned)
           /\ IsErr(Unwrap(returned))
           /\ exited = None

\* the child was killed by a signal and the parent has exited
C9_Witness ==
    /\ children # <<>>
    /\ pc = "exited"
    /\ IsSome(children[1].status)
    /\ IsSome(Unwrap(children[1].status).signal)
    /\ IsSome(exited)

----------------------------------------------------------------------------
(* Properties of the TLS acceptor construction (TlsSpec)                   *)

PeerCall == <<"with_ssl_verify_mode", "PEER">>

\* C10: try_build_tls_acceptor fails, before any provider call, with an
\* error naming the missing field when server_cert is absent, when server_key
\* is absent, or when enable_client_cert is set and ca_cert is absent.  With
\* certificate and key present it configures peer verification against the
\* CA exactly when enable_client_cert is set with a CA path, and anonymous
\* mode, the CA path ignored, when enable_client_cert is not set.
C10_TlsAcceptor ==
    IsSome(acceptorOut) =>
        LET t == opt.tls
            r == Unwrap(acceptorOut)
            present == IsSome(t.server_cert) /\ IsSome(t.server_key)
            configured == Len(providerCalls) >= 2
        IN  /\ IsNone(t.server_cert) =>
                   r = Err(IoError("NotFound", "missing server cert"))
            /\ (IsSome(t.server_cert) /\ IsNone(t.server_key)) =>
                   r = Err(IoError("NotFound", "missing server key"))
            /\ (present /\ t.enable_client_cert /\ IsNone(t.ca_cert)) =>
                   r = Err(IoError("NotFound", "missing ca cert"))
            /\ (~present \/ (t.enable_client_cert /\ IsNone(t.ca_cert))) =>
                   (IsErr(r) /\ providerCalls = <<>>)
            /\ (present /\ t.enable_client_cert /\ IsSome(t.ca_cert) /\ configured) =>
                   /\ providerCalls[2] = PeerCall
                   /\ providerCalls[3] = <<"with_ca_from_pem_file", Unwrap(t.ca_cert)>>
                   /\ IsOk(r) => (r.val.verify_mode = "PEER" /\ r.val.ca = t.ca_cert)
            /\ (present /\ ~t.enable_client_cert) =>
                   /\ \A i \in 1..Len(providerCalls) :
                          providerCalls[i][1] \notin {"with_ssl_verify_mode", "with_ca_from_pem_file"}
                   /\ IsOk(r) => (r.val.verify_mode = "NONE" /\ r.val.ca = None)
            /\ IsOk(r) =>
                   /\ r.val.cert = Unwrap(t.server_cert)
                   /\ r.val.key = Unwrap(t.server_key)

\* an anonymous acceptor was built although a CA path was supplied
C10_Witness ==
    /\ IsSome(acceptorOut)
    /\ IsOk(Unwrap(acceptorOut))
    /\ ~opt.tls.enable_client_cert
    /\ IsSome(opt.tls.ca_cert)
    /\ Unwrap(acceptorOut).val.verify_mode = "NONE"

====
